---- MODULE Spec2Model ----
(***************************************************************************)
(* Calendar synchronisation and availability engine of the household       *)
(* assistant backend: event CRUD with best-effort propagation to a remote  *)
(* calendar, credential refresh, the OAuth callback, the list merge and    *)
(* the availability check.                                                 *)
(*                                                                         *)
(* Every handler is a process that advances one step per awaited store or  *)
(* provider call, so that handlers interleave exactly where the async      *)
(* runtime may switch tasks.  Times are seconds on one wall-clock line;    *)
(* a day has 86400 of them.  None (0) stands for Python's None in every    *)
(* integer-valued optional; ids, keys, users and times are positive.       *)
(***************************************************************************)
EXTENDS Integers, Sequences, FiniteSets, TLC

VARIABLES events, nextId, remote, nextGid, creds, ostates, now, ops, procs

vars == <<events, nextId, remote, nextGid, creds, ostates, now, ops, procs>>

None == 0

\* ------------------------------------------------------------------ bounds

\* operations started in one behaviour
MaxOps == 3
\* ticks of the clock in the OAuth specifications
MaxTicks == 2

\* --------------------------------------------------------- program constants

DaySeconds == 86400
HourSeconds == 3600
\* time(9, 0): the default start of an event created without a time
DefaultStartHour == 9
\* duration_minutes default of EventCreate
DefaultDurationMinutes == 60
\* minutes_threshold of find_potential_duplicate
DuplicateThresholdMinutes == 30
\* timedelta(minutes=5): the refresh buffer of get_valid_credentials
RefreshBufferMinutes == 5
\* timedelta(days=7): the default length of a listed date range
DefaultRangeDays == 7
\* expires_in of a token response (token_data.get("expires_in", 3600))
ExpiresIn == 3600
\* timedelta(minutes=15): life of an OAuth state
StateLifeMinutes == 15

\* -------------------------------------------------------------------- text

\* str.lower() / SQL LOWER() on the characters the titles use
LowerChar(c) == CASE c = "D" -> "d" [] c = "T" -> "t" [] OTHER -> c

LowerStr(s) == [i \in DOMAIN s |-> LowerChar(s[i])]

IsSpace(c) == c = " "

RECURSIVE SkipSpaces(_)
SkipSpaces(s) == IF s # <<>> /\ IsSpace(s[1]) THEN SkipSpaces(Tail(s)) ELSE s

RECURSIVE TakeWord(_)
TakeWord(s) ==
    IF s = <<>> \/ IsSpace(s[1]) THEN <<>> ELSE <<s[1]>> \o TakeWord(Tail(s))

\* title_words = title.lower().split(); keyword = title_words[0] if title_words else ""
Keyword(title) == TakeWord(SkipSpaces(LowerStr(title)))

\* text LIKE pattern of PostgreSQL: % any run, _ any one character, backslash
\* makes the next pattern character literal
RECURSIVE LikeMatch(_, _)
LikeMatch(t, p) ==
    IF p = <<>> THEN t = <<>>
    ELSE IF p[1] = "%"
         THEN LikeMatch(t, Tail(p)) \/ (t # <<>> /\ LikeMatch(Tail(t), p))
    ELSE IF p[1] = "\\"
         THEN /\ Len(p) >= 2
              /\ t # <<>>
              /\ t[1] = p[2]
              /\ LikeMatch(Tail(t), Tail(Tail(p)))
    ELSE IF p[1] = "_"
         THEN t # <<>> /\ LikeMatch(Tail(t), Tail(p))
    ELSE t # <<>> /\ t[1] = p[1] /\ LikeMatch(Tail(t), Tail(p))

\* LOWER(title) LIKE LOWER($4) with $4 = f"%{title_keyword}%"
TitleLike(title, keyword) ==
    LikeMatch(LowerStr(title), LowerStr(<<"%">> \o keyword \o <<"%">>))

\* plain substring test: s contains w
Contains(s, w) ==
    \E i \in 1..(Len(s) + 1) :
        /\ i + Len(w) - 1 <= Len(s)
        /\ \A j \in 1..Len(w) : s[i + j - 1] = w[j]

Abs(n) == IF n < 0 THEN 0 - n ELSE n

\* -------------------------------------------------------------------- time

\* datetime.combine(date, time)
Combine(d, t) == d * DaySeconds + t

DateOf(dt) == dt \div DaySeconds
TimeOf(dt) == dt % DaySeconds

\* datetime.utcnow() when the model starts
Now0 == 1000

\* --------------------------------------------------------------- the stores

Procs == {1, 2}
Tenants == {1, 2}
Users == {1}

NoCred == [present |-> FALSE, access |-> None, refresh |-> None, expires |-> None]
NoTok == [access |-> None, refresh |-> None, expires |-> None]

\* a row of the events table
Row(id, tenant, title, start, end, idem, sync) ==
    [id |-> id, tenant |-> tenant, title |-> title, start |-> start,
     end |-> end, idem |-> idem, gid |-> None, sync |-> sync,
     source |-> "app", synced_at |-> None]

\* a lookup by id alone
RowOf_AnyTenant(tenant, id) == {r \in events : r.id = id}

\* WHERE tenant_id = $1 AND id = $2
RowOf(tenant, id) == {r \in events : r.tenant = tenant /\ r.id = id}

\* an event of the remote calendar
RemoteEvent(id, title, start, end) ==
    [id |-> id, title |-> title, start |-> start, end |-> end]

RemoteOf(gid) == {g \in remote : g.id = gid}


\* ------------------------------------------------- repositories/calendar.py

Threshold == DuplicateThresholdMinutes * 60

\* find_potential_duplicate: the rows the WHERE clause selects; LIMIT 1 with no
\* ORDER BY returns any one of them
find_potential_duplicate(tenant, start, keyword) ==
    {r \in events : /\ r.tenant = tenant
                    /\ Abs(r.start - start) < Threshold
                    /\ TitleLike(r.title, keyword)}

\* an INSERT that meets no unique constraint on the key
IdemConflict_Never(tenant, idem) == {}

\* the row an INSERT with this idempotency key conflicts with
IdemConflict(tenant, idem) ==
    {r \in events : idem # None /\ r.tenant = tenant /\ r.idem = idem}

\* update_event of the repository: every argument that is not None is assigned
UpdatedRow(r, title, start, end, sync, gid, synced_at) ==
    [r EXCEPT !.title = IF title # <<>> THEN title ELSE @,
              !.start = IF start # None THEN start ELSE @,
              !.end = IF end # None THEN end ELSE @,
              !.sync = IF sync # "none" THEN sync ELSE @,
              !.gid = IF gid # None THEN gid ELSE @,
              !.synced_at = IF synced_at # None THEN synced_at ELSE @]

repo_update_event(tenant, id, title, start, end, sync, gid, synced_at) ==
    {IF r.tenant = tenant /\ r.id = id
     THEN UpdatedRow(r, title, start, end, sync, gid, synced_at)
     ELSE r : r \in events}

\* delete_event of the repository
repo_delete_event(tenant, id) ==
    {r \in events : ~(r.tenant = tenant /\ r.id = id)}

\* an update that never moves the expiry back
update_google_tokens_KeepLater(c, access, expires, refresh) ==
    IF ~c.present THEN c
    ELSE [c EXCEPT !.access = access,
                   !.expires = IF expires > @ THEN expires ELSE @,
                   !.refresh = IF refresh # None THEN refresh ELSE @]

\* an update that assigns the refresh token of the response even when there
\* is none
update_google_tokens_AlwaysRefresh(c, access, expires, refresh) ==
    IF ~c.present THEN c
    ELSE [c EXCEPT !.access = access, !.expires = expires, !.refresh = refresh]

\* update_google_tokens: UPDATE ... WHERE user_id = $1; the refresh token is
\* assigned only when the response carried one
update_google_tokens(c, access, expires, refresh) ==
    IF ~c.present THEN c
    ELSE [c EXCEPT !.access = access,
                   !.expires = expires,
                   !.refresh = IF refresh # None THEN refresh ELSE @]

\* --------------------------------------------------------------- processes

Idle ==
    [pc |-> "idle", op |-> "none", tenant |-> None, title |-> <<>>,
     date |-> None, time |-> None, dur |-> None, sync |-> FALSE,
     user |-> None, idem |-> None, eid |-> None,
     start |-> None, end |-> None, rid |-> None, egid |-> None,
     cred |-> NoCred, tok |-> NoTok, ggid |-> None,
     outcome |-> "none", created |-> FALSE, dup |-> None, fail |-> "none",
     wrote |-> FALSE, order |-> "none", inserted |-> FALSE, ret |-> FALSE,
     state |-> None, found |-> FALSE, exch |-> "none", snap |-> NoCred,
     wroteCred |-> FALSE, marked |-> FALSE, phone |-> None, redirect |-> None,
     sdate |-> None, edate |-> None, search |-> <<>>, include |-> FALSE,
     tmin |-> None, tmax |-> None, records |-> <<>>, items |-> <<>>,
     result |-> <<>>, conflicts |-> <<>>, available |-> FALSE,
     suggested |-> <<>>, loaded |-> NoCred, refreshes |-> 0, tokWrites |-> 0,
     http |-> None, connected |-> FALSE]

Set(p, r) == procs' = [procs EXCEPT ![p] = r]

\* the handler is left by an exception that is no GoogleCalendarError;
\* get_google_connection_status alone has an except Exception, which answers
\* connected = False
Raised(r, kind) ==
    IF r.op = "status"
    THEN [r EXCEPT !.pc = "done", !.outcome = "ok", !.fail = kind,
                   !.connected = FALSE]
    ELSE [r EXCEPT !.pc = "done", !.outcome = "raised", !.fail = kind]

\* return _record_to_event_response(record) of update_event: the record is None
\* when the UPDATE matched no row, and subscripting None raises TypeError
UpdateReturn(r) ==
    IF r.rid = None
    THEN [r EXCEPT !.pc = "done", !.outcome = "raised"]
    ELSE [r EXCEPT !.pc = "done", !.outcome = "ok"]

\* ------------------------------------------------- responses and their order

Min(a, b) == IF a < b THEN a ELSE b

\* LIMIT n / maxResults = n
FirstN(seq, n) == SubSeq(seq, 1, Min(n, Len(seq)))

\* LIMIT of get_events
Limit == 50
\* max_results of list_events
MaxResults == 50

\* ORDER BY start_datetime ASC, orderBy = "startTime": the members of S by
\* start, members with equal starts in any order
OrderedByStart(S) ==
    {f \in [1..Cardinality(S) -> S] :
        \A i, j \in 1..Cardinality(S) :
            i < j => f[i] # f[j] /\ f[i].start <= f[j].start}

\* _record_to_event_response
record_to_event_response(row) ==
    [id |-> row.id, gid |-> row.gid, title |-> row.title, start |-> row.start,
     end |-> row.end, source |-> row.source, aware |-> FALSE]

\* the notations of an RFC 3339 dateTime: "...Z", "...+hh:mm", "...-hh:mm"
Forms == {"Z", "plus", "minus"}

\* parse_google_datetime: the text after a "+" is cut off, a "Z" is removed, and
\* datetime.fromisoformat reads what is left; a "-hh:mm" offset is still there
\* and makes the datetime timezone-aware
parse_google_datetime(wall, form) ==
    IF form = "plus" THEN [t |-> wall, aware |-> FALSE]
    ELSE IF form = "Z" THEN [t |-> wall, aware |-> FALSE]
    ELSE [t |-> wall, aware |-> TRUE]

\* google_event_to_local, in the shape of an EventResponse with source = google
google_event_to_local(g) ==
    [id |-> None, gid |-> g.id, title |-> g.title,
     start |-> parse_google_datetime(g.start, g.form).t,
     end |-> IF g.end # None THEN parse_google_datetime(g.end, g.form).t ELSE None,
     source |-> "google",
     aware |-> parse_google_datetime(g.start, g.form).aware]

\* event_end = end_datetime or start_datetime + timedelta(hours=1)
EndOrHour(e) == IF e.end # None THEN e.end ELSE e.start + HourSeconds

\* event_start < end_dt and event_end > start_dt
Overlaps(e, start, end) == e.start < end /\ EndOrHour(e) > start

\* an offset-naive and an offset-aware datetime meet in a comparison: TypeError
MixedAwareness(seq) ==
    \E i, j \in DOMAIN seq : seq[i].aware # seq[j].aware

\* list.sort(key=lambda e: e.start_datetime): stable
RECURSIVE InsertByStart(_, _)
InsertByStart(sorted, x) ==
    IF sorted = <<>> THEN <<x>>
    ELSE IF sorted[Len(sorted)].start <= x.start THEN Append(sorted, x)
    ELSE Append(InsertByStart(SubSeq(sorted, 1, Len(sorted) - 1), x),
                sorted[Len(sorted)])

RECURSIVE SortByStart(_)
SortByStart(seq) ==
    IF seq = <<>> THEN <<>>
    ELSE InsertByStart(SortByStart(SubSeq(seq, 1, Len(seq) - 1)), seq[Len(seq)])

\* the rest of list_events once the remote items are known (none when the
\* remote side is skipped or failed): merge, sort, return
ListFinish(r, items) ==
    LET local == [i \in DOMAIN r.records |-> record_to_event_response(r.records[i])]
        local_google_ids == {local[i].gid : i \in DOMAIN local} \ {None}
        fresh == SelectSeq(items, LAMBDA g : g.id \notin local_google_ids)
        merged == local \o [i \in DOMAIN fresh |-> google_event_to_local(fresh[i])]
    IN IF MixedAwareness(merged)
       THEN [Raised(r, "type_error") EXCEPT !.items = items]
       ELSE [r EXCEPT !.pc = "done", !.outcome = "ok", !.items = items,
                      !.result = SortByStart(merged)]

\* range(8, 20), and the three suggestions check_availability stops at
FirstHour == 8
LastHour == 19
MaxSuggestions == 3

RECURSIVE FreeHours(_, _, _, _)
FreeHours(h, date, dur, conflicts) ==
    IF h > LastHour THEN <<>>
    ELSE LET test_start == Combine(date, h * HourSeconds)
             test_end == test_start + dur * 60
             is_free == \A i \in DOMAIN conflicts :
                            ~Overlaps(conflicts[i], test_start, test_end)
         IN (IF is_free THEN <<h>> ELSE <<>>)
              \o FreeHours(h + 1, date, dur, conflicts)

\* an end of check_availability that suggests every free hour
AvailReturn_Uncapped(r, conflicts) ==
    [r EXCEPT !.pc = "done", !.outcome = "ok", !.conflicts = conflicts,
              !.available = (conflicts = <<>>),
              !.suggested = IF conflicts = <<>> THEN <<>>
                            ELSE FreeHours(FirstHour, r.date, r.dur, conflicts)]

\* the end of check_availability: suggestions when there are conflicts
AvailReturn(r, conflicts) ==
    [r EXCEPT !.pc = "done", !.outcome = "ok", !.conflicts = conflicts,
              !.available = (conflicts = <<>>),
              !.suggested = IF conflicts = <<>> THEN <<>>
                            ELSE FirstN(FreeHours(FirstHour, r.date, r.dur, conflicts),
                                        MaxSuggestions)]

\* the rest of check_availability once the remote items are known
AvailFinish(r, items) ==
    LET googled == [i \in DOMAIN items |-> google_event_to_local(items[i])]
        hits == SelectSeq(googled, LAMBDA g : Overlaps(g, r.start, r.end))
        shown == [i \in DOMAIN hits |-> [hits[i] EXCEPT !.end = EndOrHour(hits[i])]]
    IN IF \E i \in DOMAIN googled : googled[i].aware
       THEN [Raised(r, "type_error") EXCEPT !.items = items]
       ELSE AvailReturn([r EXCEPT !.items = items], r.conflicts \o shown)

\* a GoogleCalendarError reaches the except clause of the calling handler
CaughtByHandler(r, kind) ==
    CASE r.op = "create" -> [r EXCEPT !.pc = "c_markfail", !.fail = kind]
      [] r.op = "update" -> UpdateReturn([r EXCEPT !.fail = kind])
      [] r.op = "delete" -> [r EXCEPT !.pc = "d_delete", !.fail = kind]
      [] r.op = "list" -> ListFinish([r EXCEPT !.fail = kind], <<>>)
      [] r.op = "avail" -> AvailReturn([r EXCEPT !.fail = kind], r.conflicts)
      \* get_google_connection_status calls get_valid_credentials itself and
      \* does not look at what it returns
      [] r.op = "status" -> [r EXCEPT !.pc = "done", !.outcome = "ok",
                                      !.fail = kind, !.connected = TRUE]
      [] OTHER -> [r EXCEPT !.pc = "done", !.outcome = "ok", !.fail = kind]

\* a handler calls into services/google_calendar.py
EnterRemote(r) ==
    [r EXCEPT !.pc = "g_load",
              !.order = IF @ # "none" THEN @
                        ELSE IF r.wrote THEN "local_first" ELSE "remote_first"]

\* ------------------------------------------ services/calendar.py create_event

CreateStart(p, in) ==
    /\ procs[p].pc = "idle"
    /\ ops < MaxOps
    /\ ops' = ops + 1
    /\ LET t == IF in.time # None THEN in.time ELSE DefaultStartHour * HourSeconds
           s == Combine(in.date, t)
       IN Set(p, [Idle EXCEPT !.pc = "c_dup", !.op = "create",
                              !.tenant = in.tenant, !.title = in.title,
                              !.date = in.date, !.time = in.time,
                              !.dur = in.dur, !.sync = in.sync,
                              !.user = in.user, !.idem = in.idem,
                              !.start = s, !.end = s + in.dur * 60])
    /\ UNCHANGED <<events, nextId, remote, nextGid, creds, ostates, now>>

\* check_for_duplicate and the gate on its answer
CreateDupCheck(p) ==
    LET r == procs[p]
        found == find_potential_duplicate(r.tenant, r.start, Keyword(r.title))
    IN /\ r.pc = "c_dup"
       /\ \/ /\ found # {}
             /\ \E d \in found :
                  Set(p, [r EXCEPT !.pc = "done", !.outcome = "ok",
                                   !.created = FALSE, !.dup = d.id])
          \/ /\ found = {}
             /\ Set(p, [r EXCEPT !.pc = "c_insert"])
       /\ UNCHANGED <<events, nextId, remote, nextGid, creds, ostates, now, ops>>

\* an insert that looks for a duplicate once more, in one step with the write
CreateInsert_Gated(p) ==
    LET r == procs[p]
        clash == IdemConflict(r.tenant, r.idem)
        found == find_potential_duplicate(r.tenant, r.start, Keyword(r.title))
        status == IF r.sync THEN "pending_sync" ELSE "local"
        after(id, new) ==
            LET q == [r EXCEPT !.rid = id, !.wrote = TRUE, !.created = TRUE,
                               !.inserted = new]
            IN IF r.sync /\ r.user # None
               THEN EnterRemote(q)
               ELSE [q EXCEPT !.pc = "done", !.outcome = "ok"]
    IN /\ r.pc = "c_insert"
       /\ \/ /\ found # {}
             /\ \E d \in found :
                  Set(p, [r EXCEPT !.pc = "done", !.outcome = "ok",
                                   !.created = FALSE, !.dup = d.id])
             /\ UNCHANGED <<events, nextId>>
          \/ /\ found = {} /\ clash = {}
             /\ events' = events \cup
                    {Row(nextId, r.tenant, r.title, r.start, r.end, r.idem, status)}
             /\ nextId' = nextId + 1
             /\ Set(p, after(nextId, TRUE))
          \/ /\ found = {} /\ clash # {}
             /\ \E c \in clash : Set(p, after(c.id, FALSE))
             /\ UNCHANGED <<events, nextId>>
       /\ UNCHANGED <<remote, nextGid, creds, ostates, now, ops>>

\* calendar_repo.create_event: INSERT ... ON CONFLICT (tenant_id, idempotency_key)
\* DO UPDATE SET id = events.id RETURNING *
CreateInsert(p) ==
    LET r == procs[p]
        clash == IdemConflict(r.tenant, r.idem)
        status == IF r.sync THEN "pending_sync" ELSE "local"
        after(id, new) ==
            LET q == [r EXCEPT !.rid = id, !.wrote = TRUE, !.created = TRUE,
                               !.inserted = new]
            IN IF r.sync /\ r.user # None
               THEN EnterRemote(q)
               ELSE [q EXCEPT !.pc = "done", !.outcome = "ok"]
    IN /\ r.pc = "c_insert"
       /\ \/ /\ clash = {}
             /\ events' = events \cup
                    {Row(nextId, r.tenant, r.title, r.start, r.end, r.idem, status)}
             /\ nextId' = nextId + 1
             /\ Set(p, after(nextId, TRUE))
          \/ /\ clash # {}
             /\ \E c \in clash : Set(p, after(c.id, FALSE))
             /\ UNCHANGED <<events, nextId>>
       /\ UNCHANGED <<remote, nextGid, creds, ostates, now, ops>>

\* a create that marks the row synced and leaves last_synced_at alone
CreateMarkSynced_NoStamp(p) ==
    LET r == procs[p]
    IN /\ r.pc = "c_mark"
       /\ events' = repo_update_event(r.tenant, r.rid, <<>>, None, None,
                                      "synced", r.ggid, None)
       /\ Set(p, [r EXCEPT !.pc = "done", !.outcome = "ok"])
       /\ UNCHANGED <<nextId, remote, nextGid, creds, ostates, now, ops>>

\* after gcal_service.create_event returned: the row gets the remote id
CreateMarkSynced(p) ==
    LET r == procs[p]
    IN /\ r.pc = "c_mark"
       /\ events' = repo_update_event(r.tenant, r.rid, <<>>, None, None,
                                      "synced", r.ggid, now)
       /\ Set(p, [r EXCEPT !.pc = "done", !.outcome = "ok"])
       /\ UNCHANGED <<nextId, remote, nextGid, creds, ostates, now, ops>>

\* except GoogleCalendarError: the row is written pending_sync
CreateMarkPending(p) ==
    LET r == procs[p]
    IN /\ r.pc = "c_markfail"
       /\ events' = repo_update_event(r.tenant, r.rid, <<>>, None, None,
                                      "pending_sync", None, None)
       /\ Set(p, [r EXCEPT !.pc = "done", !.outcome = "ok"])
       /\ UNCHANGED <<nextId, remote, nextGid, creds, ostates, now, ops>>

\* --------------------------- services/google_calendar.py get_valid_credentials

RefreshBuffer == RefreshBufferMinutes * 60

\* an expiry test that lets a token through on the last second of the buffer
NeedsRefresh_Strict(c) == c.expires < now + RefreshBuffer

\* creds_record["token_expires_at"] <= datetime.utcnow() + timedelta(minutes=5)
NeedsRefresh(c) == c.expires <= now + RefreshBuffer

\* calendar_repo.get_google_credentials_by_user and the expiry test
LoadCredentials(p) ==
    LET r == procs[p]
        c == creds[r.user]
    IN /\ r.pc = "g_load"
       /\ Set(p, IF ~c.present THEN CaughtByHandler(r, "no_credentials")
                 ELSE IF NeedsRefresh(c)
                      THEN [r EXCEPT !.pc = "g_refresh", !.cred = c, !.loaded = c]
                      ELSE [r EXCEPT !.pc = "g_call", !.cred = c, !.loaded = c])
       /\ UNCHANGED <<events, nextId, remote, nextGid, creds, ostates, now, ops>>

\* what the token endpoint may answer to the refresh of handler p: an access
\* token issued for this call, with or without a new refresh token
RefreshResponses(p) ==
    {[access |-> 1 + p, refresh |-> None], [access |-> 1 + p, refresh |-> 1 + p]}

\* refresh_access_token, and expires_at = utcnow() + expires_in on its answer: a
\* 200 with a token set, a non-200 (GoogleCalendarError,
\* caught: the credentials are None), an httpx transport error or a 200 without
\* expires_in / access_token (neither is a GoogleCalendarError: both propagate)
RefreshToken(p) ==
    LET r == [procs[p] EXCEPT !.refreshes = @ + 1]
    IN /\ r.pc = "g_refresh"
       /\ \/ \E t \in RefreshResponses(p) :
                Set(p, [r EXCEPT !.pc = "g_persist",
                                 !.tok = [access |-> t.access, refresh |-> t.refresh,
                                          expires |-> now + ExpiresIn]])
          \/ Set(p, CaughtByHandler(r, "refresh_failed"))
          \/ Set(p, Raised(r, "refresh_transport"))
          \/ Set(p, Raised(r, "refresh_malformed"))
       /\ UNCHANGED <<events, nextId, remote, nextGid, creds, ostates, now, ops>>

\* calendar_repo.update_google_tokens, then the new Credentials object
PersistTokens(p) ==
    LET r == procs[p]
    IN /\ r.pc = "g_persist"
       /\ creds' = [creds EXCEPT ![r.user] =
                       update_google_tokens(@, r.tok.access, r.tok.expires, r.tok.refresh)]
       /\ Set(p, [r EXCEPT !.pc = "g_call", !.tokWrites = @ + 1,
                           !.cred = [present |-> TRUE, access |-> r.tok.access,
                                     refresh |-> IF r.tok.refresh # None
                                                 THEN r.tok.refresh ELSE r.cred.refresh,
                                     expires |-> r.tok.expires]])
       /\ UNCHANGED <<events, nextId, remote, nextGid, ostates, now, ops>>

\* ------------------------------- services/google_calendar.py provider calls

\* create_event: events().insert().execute() answers with the new event, with an
\* HttpError (wrapped in GoogleCalendarError) or fails below HTTP (propagates)
RemoteInsert(p) ==
    LET r == procs[p]
    IN /\ r.pc = "g_call" /\ r.op = "create"
       /\ \/ /\ remote' = remote \cup
                    {RemoteEvent(nextGid, r.title, r.start, r.end)}
             /\ nextGid' = nextGid + 1
             /\ Set(p, [r EXCEPT !.pc = "c_mark", !.ggid = nextGid])
          \/ /\ Set(p, CaughtByHandler(r, "create_failed"))
             /\ UNCHANGED <<remote, nextGid>>
          \/ /\ Set(p, Raised(r, "transport"))
             /\ UNCHANGED <<remote, nextGid>>
       /\ UNCHANGED <<events, nextId, creds, ostates, now, ops>>

\* the body update_event sends back: the event it read, with every argument that
\* is truthy assigned
PatchedRemote(g, r) ==
    [g EXCEPT !.title = IF r.title # <<>> THEN r.title ELSE @,
              !.start = IF r.start # None THEN r.start ELSE @,
              !.end = IF r.end # None THEN r.end ELSE @]

\* update_event: events().get() then events().update(); a remote event that is
\* gone answers 404; any HttpError becomes GoogleCalendarError(update_failed)
RemoteUpdate(p) ==
    LET r == procs[p]
    IN /\ r.pc = "g_call" /\ r.op = "update"
       /\ \/ /\ RemoteOf(r.egid) # {}
             /\ remote' = {IF g.id = r.egid THEN PatchedRemote(g, r) ELSE g :
                               g \in remote}
             /\ Set(p, [r EXCEPT !.pc = "u_mark"])
          \/ /\ Set(p, CaughtByHandler(r, "update_failed"))
             /\ UNCHANGED remote
          \/ /\ Set(p, Raised(r, "transport"))
             /\ UNCHANGED remote
       /\ UNCHANGED <<events, nextId, nextGid, creds, ostates, now, ops>>

\* a delete_event that takes the 404 of the provider for a failure
RemoteDelete_404Fails(p) ==
    LET r == procs[p]
    IN /\ r.pc = "g_call" /\ r.op = "delete"
       /\ \/ /\ RemoteOf(r.egid) # {}
             /\ remote' = remote \ RemoteOf(r.egid)
             /\ Set(p, [r EXCEPT !.pc = "d_delete", !.http = 204])
          \/ /\ RemoteOf(r.egid) = {}
             /\ Set(p, CaughtByHandler([r EXCEPT !.http = 404], "delete_failed"))
             /\ UNCHANGED remote
          \/ /\ Set(p, CaughtByHandler([r EXCEPT !.http = 500], "delete_failed"))
             /\ UNCHANGED remote
          \/ /\ Set(p, Raised(r, "transport"))
             /\ UNCHANGED remote
       /\ UNCHANGED <<events, nextId, nextGid, creds, ostates, now, ops>>

\* delete_event: events().delete(); the provider answers 204, 404 for an event
\* it does not hold, or another error status; a 404 is success, any other
\* HttpError becomes GoogleCalendarError(delete_failed)
RemoteDelete(p) ==
    LET r == procs[p]
    IN /\ r.pc = "g_call" /\ r.op = "delete"
       /\ \/ /\ RemoteOf(r.egid) # {}
             /\ remote' = remote \ RemoteOf(r.egid)
             /\ Set(p, [r EXCEPT !.pc = "d_delete", !.http = 204])
          \/ /\ RemoteOf(r.egid) = {}
             /\ Set(p, [r EXCEPT !.pc = "d_delete", !.fail = "http_404",
                                 !.http = 404])
             /\ UNCHANGED remote
          \/ /\ Set(p, CaughtByHandler([r EXCEPT !.http = 500], "delete_failed"))
             /\ UNCHANGED remote
          \/ /\ Set(p, Raised(r, "transport"))
             /\ UNCHANGED remote
       /\ UNCHANGED <<events, nextId, nextGid, creds, ostates, now, ops>>

\* what events().list(timeMin, timeMax) selects: the events that end after
\* timeMin and start before timeMax
Listed(tmin, tmax) == {g \in remote : EndOrHour(g) > tmin /\ g.start < tmax}

\* list_events: events().list().execute() answers with the items, their times
\* in the notation the provider chooses, with an HttpError (GoogleCalendarError
\* list_failed) or fails below HTTP; the handler runs to its end on the answer
RemoteList(p) ==
    LET r == procs[p]
    IN /\ r.pc = "g_call" /\ r.op \in {"list", "avail"}
       /\ \/ \E f \in Forms, gs \in OrderedByStart(Listed(r.tmin, r.tmax)) :
                LET items == FirstN([i \in DOMAIN gs |->
                                        [id |-> gs[i].id, title |-> gs[i].title,
                                         start |-> gs[i].start, end |-> gs[i].end,
                                         form |-> f]], MaxResults)
                IN Set(p, IF r.op = "list" THEN ListFinish(r, items)
                          ELSE AvailFinish(r, items))
          \/ Set(p, CaughtByHandler(r, "list_failed"))
          \/ Set(p, Raised(r, "transport"))
       /\ UNCHANGED <<events, nextId, remote, nextGid, creds, ostates, now, ops>>

\* ------------------------------------------ services/calendar.py update_event

UpdateStart(p, in) ==
    /\ procs[p].pc = "idle"
    /\ ops < MaxOps
    /\ ops' = ops + 1
    /\ Set(p, [Idle EXCEPT !.pc = "u_get", !.op = "update", !.tenant = in.tenant,
                           !.eid = in.eid, !.title = in.title, !.date = in.date,
                           !.time = in.time, !.dur = in.dur, !.user = in.user])
    /\ UNCHANGED <<events, nextId, remote, nextGid, creds, ostates, now>>

\* (existing["end_datetime"] - existing["start_datetime"]).seconds // 60
SecondsField(delta) == delta % DaySeconds

ExistingDuration(e) ==
    IF e.end # None THEN SecondsField(e.end - e.start) \div 60
    ELSE DefaultDurationMinutes

\* new_start_dt of update_event, None when the patch has neither date nor time
NewStart(e, date, time) ==
    IF date # None \/ time # None
    THEN Combine(IF date # None THEN date ELSE DateOf(e.start),
                 IF time # None THEN time ELSE TimeOf(e.start))
    ELSE None

\* new_end_dt of update_event
NewEnd(e, date, time, dur) ==
    IF date # None \/ time # None
    THEN NewStart(e, date, time)
           + (IF dur # None THEN dur ELSE ExistingDuration(e)) * 60
    ELSE None

\* calendar_repo.get_event_by_id, the 404, and the new start and end
UpdateGet(p) ==
    LET r == procs[p]
        found == RowOf(r.tenant, r.eid)
    IN /\ r.pc = "u_get"
       /\ \/ /\ found = {}
             /\ Set(p, [r EXCEPT !.pc = "done", !.outcome = "notfound"])
          \/ \E e \in found :
                Set(p, [r EXCEPT !.pc = "u_write", !.egid = e.gid,
                                 !.start = NewStart(e, r.date, r.time),
                                 !.end = NewEnd(e, r.date, r.time, r.dur)])
       /\ UNCHANGED <<events, nextId, remote, nextGid, creds, ostates, now, ops>>

\* calendar_repo.update_event with the patch, pending_sync when the event read
\* had a remote id
UpdateWrite(p) ==
    LET r == procs[p]
        q == [r EXCEPT !.wrote = TRUE,
                       !.rid = IF RowOf(r.tenant, r.eid) # {} THEN r.eid ELSE None]
    IN /\ r.pc = "u_write"
       /\ events' = repo_update_event(r.tenant, r.eid, r.title, r.start, r.end,
                        IF r.egid # None THEN "pending_sync" ELSE "none", None, None)
       /\ Set(p, IF r.egid # None /\ r.user # None
                 THEN EnterRemote(q)
                 ELSE UpdateReturn(q))
       /\ UNCHANGED <<nextId, remote, nextGid, creds, ostates, now, ops>>

\* after gcal_service.update_event returned: synced, last_synced_at = utcnow()
UpdateMarkSynced(p) ==
    LET r == procs[p]
    IN /\ r.pc = "u_mark"
       /\ events' = repo_update_event(r.tenant, r.eid, <<>>, None, None,
                                      "synced", None, now)
       /\ Set(p, UpdateReturn(r))
       /\ UNCHANGED <<nextId, remote, nextGid, creds, ostates, now, ops>>

\* ------------------------------------------ services/calendar.py delete_event

DeleteStart(p, in) ==
    /\ procs[p].pc = "idle"
    /\ ops < MaxOps
    /\ ops' = ops + 1
    /\ Set(p, [Idle EXCEPT !.pc = "d_get", !.op = "delete", !.tenant = in.tenant,
                           !.eid = in.eid, !.user = in.user])
    /\ UNCHANGED <<events, nextId, remote, nextGid, creds, ostates, now>>

\* a delete_event that removed the row before it turned to the remote calendar
DeleteGet_RowFirst(p) ==
    LET r == procs[p]
        found == RowOf(r.tenant, r.eid)
    IN /\ r.pc = "d_get"
       /\ \/ /\ found = {}
             /\ Set(p, [r EXCEPT !.pc = "done", !.outcome = "notfound"])
             /\ UNCHANGED events
          \/ /\ \E e \in found :
                   LET q == [r EXCEPT !.egid = e.gid, !.rid = e.id, !.wrote = TRUE]
                   IN Set(p, IF e.gid # None /\ r.user # None
                             THEN EnterRemote(q)
                             ELSE [q EXCEPT !.pc = "d_delete"])
             /\ events' = repo_delete_event(r.tenant, r.eid)
       /\ UNCHANGED <<nextId, remote, nextGid, creds, ostates, now, ops>>

\* calendar_repo.get_event_by_id, the 404, and the choice of a remote delete
DeleteGet(p) ==
    LET r == procs[p]
        found == RowOf(r.tenant, r.eid)
    IN /\ r.pc = "d_get"
       /\ \/ /\ found = {}
             /\ Set(p, [r EXCEPT !.pc = "done", !.outcome = "notfound"])
          \/ \E e \in found :
                LET q == [r EXCEPT !.egid = e.gid, !.rid = e.id]
                IN Set(p, IF e.gid # None /\ r.user # None
                          THEN EnterRemote(q)
                          ELSE [q EXCEPT !.pc = "d_delete"])
       /\ UNCHANGED <<events, nextId, remote, nextGid, creds, ostates, now, ops>>

\* calendar_repo.delete_event
DeleteRow(p) ==
    LET r == procs[p]
    IN /\ r.pc = "d_delete"
       /\ events' = repo_delete_event(r.tenant, r.eid)
       /\ Set(p, [r EXCEPT !.pc = "done", !.outcome = "ok", !.wrote = TRUE,
                           !.ret = (RowOf(r.tenant, r.eid) # {})])
       /\ UNCHANGED <<nextId, remote, nextGid, creds, ostates, now, ops>>

\* --------------------------------------------- services/calendar.py get_event

GetStart(p, in) ==
    /\ procs[p].pc = "idle"
    /\ ops < MaxOps
    /\ ops' = ops + 1
    /\ Set(p, [Idle EXCEPT !.pc = "x_get", !.op = "get", !.tenant = in.tenant,
                           !.eid = in.eid])
    /\ UNCHANGED <<events, nextId, remote, nextGid, creds, ostates, now>>

\* calendar_repo.get_event_by_id, the 404, the event
GetRow(p) ==
    LET r == procs[p]
        found == RowOf(r.tenant, r.eid)
    IN /\ r.pc = "x_get"
       /\ \/ /\ found = {}
             /\ Set(p, [r EXCEPT !.pc = "done", !.outcome = "notfound"])
          \/ \E e \in found :
                Set(p, [r EXCEPT !.pc = "done", !.outcome = "ok", !.rid = e.id,
                                 !.result = <<record_to_event_response(e)>>])
       /\ UNCHANGED <<events, nextId, remote, nextGid, creds, ostates, now, ops>>

\* --------------------------- services/calendar.py get_google_connection_status

StatusStart(p, user) ==
    /\ procs[p].pc = "idle"
    /\ ops < MaxOps
    /\ ops' = ops + 1
    /\ Set(p, [Idle EXCEPT !.pc = "s_get", !.op = "status", !.user = user])
    /\ UNCHANGED <<events, nextId, remote, nextGid, creds, ostates, now>>

\* calendar_repo.get_google_credentials_by_user and the two tests on the row
StatusGet(p) ==
    LET r == procs[p]
        c == creds[r.user]
    IN /\ r.pc = "s_get"
       /\ Set(p, IF ~c.present
                 THEN [r EXCEPT !.pc = "done", !.outcome = "ok", !.connected = FALSE]
                 ELSE IF c.expires <= now
                      THEN [r EXCEPT !.pc = "g_load", !.snap = c]
                      ELSE [r EXCEPT !.pc = "done", !.outcome = "ok", !.snap = c,
                                     !.connected = TRUE])
       /\ UNCHANGED <<events, nextId, remote, nextGid, creds, ostates, now, ops>>

\* get_valid_credentials returned credentials
StatusReturn(p) ==
    LET r == procs[p]
    IN /\ r.pc = "g_call" /\ r.op = "status"
       /\ Set(p, [r EXCEPT !.pc = "done", !.outcome = "ok", !.connected = TRUE])
       /\ UNCHANGED <<events, nextId, remote, nextGid, creds, ostates, now, ops>>

\* ------------------------------------------- services/calendar.py list_events

\* get_events of the repository: the rows of the tenant that start between the
\* first instant of start_date and the last of end_date and, with a search text,
\* whose title is LIKE %text%
get_events(tenant, start_date, end_date, search_query) ==
    {e \in events : /\ e.tenant = tenant
                    /\ e.start >= Combine(start_date, 0)
                    /\ e.start <= Combine(end_date, DaySeconds - 1)
                    /\ (search_query # <<>> => TitleLike(e.title, search_query))}

\* start_date defaults to date.today(), end_date to start_date + 7 days
ListStart(p, in) ==
    /\ procs[p].pc = "idle"
    /\ ops < MaxOps
    /\ ops' = ops + 1
    /\ LET sd == IF in.sdate # None THEN in.sdate ELSE DateOf(now)
           ed == IF in.edate # None THEN in.edate ELSE sd + DefaultRangeDays
       IN Set(p, [Idle EXCEPT !.pc = "l_query", !.op = "list", !.tenant = in.tenant,
                              !.sdate = sd, !.edate = ed, !.search = in.search,
                              !.include = in.include, !.user = in.user])
    /\ UNCHANGED <<events, nextId, remote, nextGid, creds, ostates, now>>

\* calendar_repo.get_events, then the remote listing of the same dates when it
\* is included and there is a user to ask it for
ListQuery(p) ==
    LET r == procs[p]
    IN /\ r.pc = "l_query"
       /\ \E rows \in OrderedByStart(get_events(r.tenant, r.sdate, r.edate, r.search)) :
             LET q == [r EXCEPT !.records = FirstN(rows, Limit)]
             IN Set(p, IF r.include /\ r.user # None
                       THEN [q EXCEPT !.pc = "g_load",
                                      !.tmin = Combine(r.sdate, 0),
                                      !.tmax = Combine(r.edate, DaySeconds - 1)]
                       ELSE ListFinish(q, <<>>))
       /\ UNCHANGED <<events, nextId, remote, nextGid, creds, ostates, now, ops>>

\* ------------------------------------- services/calendar.py check_availability

\* get_events_in_range of the repository
get_events_in_range(tenant, start, end) ==
    {e \in events : e.tenant = tenant /\ e.start >= start /\ e.start <= end}

\* timedelta(hours=2): how far the window reaches around the slot
WindowHours == 2

AvailStart(p, in) ==
    /\ procs[p].pc = "idle"
    /\ ops < MaxOps
    /\ ops' = ops + 1
    /\ LET s == Combine(in.date, in.time)
       IN Set(p, [Idle EXCEPT !.pc = "a_query", !.op = "avail", !.tenant = in.tenant,
                              !.date = in.date, !.time = in.time, !.dur = in.dur,
                              !.user = in.user, !.start = s, !.end = s + in.dur * 60])
    /\ UNCHANGED <<events, nextId, remote, nextGid, creds, ostates, now>>

\* calendar_repo.get_events_in_range on the window, the overlap test on every row
\* loaded, then the remote listing of the window when there is a user
AvailQuery(p) ==
    LET r == procs[p]
        lo == r.start - WindowHours * HourSeconds
        hi == r.end + WindowHours * HourSeconds
    IN /\ r.pc = "a_query"
       /\ \E rows \in OrderedByStart(get_events_in_range(r.tenant, lo, hi)) :
             LET hits == SelectSeq(rows, LAMBDA e : Overlaps(e, r.start, r.end))
                 found == [i \in DOMAIN hits |-> record_to_event_response(hits[i])]
                 q == [r EXCEPT !.records = rows, !.conflicts = found]
             IN Set(p, IF r.user # None
                       THEN [q EXCEPT !.pc = "g_load", !.tmin = lo, !.tmax = hi]
                       ELSE AvailReturn(q, found))
       /\ UNCHANGED <<events, nextId, remote, nextGid, creds, ostates, now, ops>>

\* ------------------------------------------------- the OAuth flow controller

\* the users table as get_user_by_phone sees it: phone 1 belongs to user 1,
\* phone 2 to nobody
PhoneUsers == {[phone |-> 1, id |-> 1, tenant |-> 1]}
Phones == {1, 2}

\* calendar_repo.get_user_by_phone
get_user_by_phone(phone) == {u \in PhoneUsers : u.phone = phone}

StateLife == StateLifeMinutes * 60

\* initiate_google_oauth: a fresh state token stored with a 15-minute expiry
Initiate(phone, redirect) ==
    /\ ops < MaxOps
    /\ ops' = ops + 1
    /\ ostates' = ostates \cup
          {[state |-> Cardinality(ostates) + 1, phone |-> phone,
            redirect |-> redirect, expires |-> now + StateLife, used_at |-> None]}
    /\ UNCHANGED <<events, nextId, remote, nextGid, creds, now, procs>>

\* get_oauth_state: WHERE state = $1 AND used_at IS NULL AND expires_at > NOW()
get_oauth_state(state) ==
    {o \in ostates : o.state = state /\ o.used_at = None /\ o.expires > now}

\* mark_oauth_state_used: UPDATE oauth_states SET used_at = NOW() WHERE state = $1
mark_oauth_state_used(state) ==
    {IF o.state = state THEN [o EXCEPT !.used_at = now] ELSE o : o \in ostates}

CallbackStart(p, state) ==
    /\ procs[p].pc = "idle"
    /\ ops < MaxOps
    /\ ops' = ops + 1
    /\ Set(p, [Idle EXCEPT !.pc = "cb_get", !.op = "callback", !.state = state,
                           !.snap = creds[1]])
    /\ UNCHANGED <<events, nextId, remote, nextGid, creds, ostates, now>>

\* state_record = await calendar_repo.get_oauth_state(state)
CallbackGetState(p) ==
    LET r == procs[p]
        rows == get_oauth_state(r.state)
    IN /\ r.pc = "cb_get"
       /\ \/ /\ rows = {}
             /\ Set(p, [r EXCEPT !.pc = "done", !.outcome = "ok", !.ret = FALSE,
                                 !.fail = "invalid_state"])
          \/ \E o \in rows :
                Set(p, [r EXCEPT !.pc = "cb_exchange", !.found = TRUE,
                                 !.phone = o.phone, !.redirect = o.redirect])
       /\ UNCHANGED <<events, nextId, remote, nextGid, creds, ostates, now, ops>>

\* what the token endpoint may answer to a code exchange
ExchangeResponses == {[access |-> 11, refresh |-> 11], [access |-> 12, refresh |-> None]}

\* a callback that retires the state when the code exchange is refused
CallbackExchange_Retires(p) ==
    LET r == procs[p]
    IN /\ r.pc = "cb_exchange"
       /\ \/ /\ \E t \in ExchangeResponses :
                   Set(p, [r EXCEPT !.pc = "cb_userinfo", !.tok = t, !.exch = "ok"])
             /\ UNCHANGED ostates
          \/ /\ Set(p, [r EXCEPT !.pc = "done", !.outcome = "ok", !.ret = FALSE,
                                 !.exch = "failed", !.fail = "token_exchange_failed"])
             /\ ostates' = mark_oauth_state_used(r.state)
          \/ /\ Set(p, [Raised(r, "exchange_transport") EXCEPT !.exch = "transport"])
             /\ UNCHANGED ostates
       /\ UNCHANGED <<events, nextId, remote, nextGid, creds, now, ops>>

\* exchange_code_for_tokens: a token set, a non-200 (GoogleCalendarError, caught:
\* the callback returns its message) or an httpx transport error (propagates)
CallbackExchange(p) ==
    LET r == procs[p]
    IN /\ r.pc = "cb_exchange"
       /\ \/ \E t \in ExchangeResponses :
                Set(p, [r EXCEPT !.pc = "cb_userinfo", !.tok = t, !.exch = "ok"])
          \/ Set(p, [r EXCEPT !.pc = "done", !.outcome = "ok", !.ret = FALSE,
                              !.exch = "failed", !.fail = "token_exchange_failed"])
          \/ Set(p, [Raised(r, "exchange_transport") EXCEPT !.exch = "transport"])
       /\ UNCHANGED <<events, nextId, remote, nextGid, creds, ostates, now, ops>>

\* get_user_info: its answer is not used; a non-200 is caught, an httpx
\* transport error is not
CallbackUserInfo(p) ==
    LET r == procs[p]
    IN /\ r.pc = "cb_userinfo"
       /\ \/ Set(p, [r EXCEPT !.pc = "cb_user"])
          \/ Set(p, Raised(r, "userinfo_transport"))
       /\ UNCHANGED <<events, nextId, remote, nextGid, creds, ostates, now, ops>>

\* user = await calendar_repo.get_user_by_phone(state_record["user_phone"])
CallbackGetUser(p) ==
    LET r == procs[p]
        us == get_user_by_phone(r.phone)
    IN /\ r.pc = "cb_user"
       /\ \/ /\ us = {}
             /\ Set(p, [r EXCEPT !.pc = "done", !.outcome = "ok", !.ret = FALSE,
                                 !.fail = "user_not_found"])
          \/ \E u \in us : Set(p, [r EXCEPT !.pc = "cb_upsert", !.rid = u.id])
       /\ UNCHANGED <<events, nextId, remote, nextGid, creds, ostates, now, ops>>

\* upsert_google_credentials: INSERT ... ON CONFLICT (user_id) DO UPDATE
CallbackUpsert(p) ==
    LET r == procs[p]
    IN /\ r.pc = "cb_upsert"
       /\ creds' = [creds EXCEPT ![r.rid] =
                       [present |-> TRUE, access |-> r.tok.access,
                        refresh |-> r.tok.refresh, expires |-> now + ExpiresIn]]
       /\ Set(p, [r EXCEPT !.pc = "cb_mark", !.wroteCred = TRUE])
       /\ UNCHANGED <<events, nextId, remote, nextGid, ostates, now, ops>>

\* await calendar_repo.mark_oauth_state_used(state); return True, redirect
CallbackMarkUsed(p) ==
    LET r == procs[p]
    IN /\ r.pc = "cb_mark"
       /\ ostates' = mark_oauth_state_used(r.state)
       /\ Set(p, [r EXCEPT !.pc = "done", !.outcome = "ok", !.ret = TRUE,
                           !.marked = TRUE])
       /\ UNCHANGED <<events, nextId, remote, nextGid, creds, now, ops>>

\* time passes: one tick is the life of an OAuth state
Tick ==
    /\ now < Now0 + MaxTicks * StateLife
    /\ now' = now + StateLife
    /\ UNCHANGED <<events, nextId, remote, nextGid, creds, ostates, ops, procs>>

\* the handler returned or raised: the task ends
Return(p) ==
    /\ procs[p].pc = "done"
    /\ Set(p, Idle)
    /\ UNCHANGED <<events, nextId, remote, nextGid, creds, ostates, now, ops>>

\* -------------------------------------------------------- the specification

FreshCred == [present |-> TRUE, access |-> 1, refresh |-> 1,
              expires |-> Now0 + RefreshBuffer + 1]
StaleCred == [present |-> TRUE, access |-> 1, refresh |-> 1,
              expires |-> Now0 + RefreshBuffer]

SyncCreates ==
    [tenant : {1}, title : {<<"D">>}, date : {1}, time : {None, 34200},
     dur : {DefaultDurationMinutes}, sync : BOOLEAN, user : {None, 1},
     idem : {None, 1}]

EventIds == {1, 2}

SyncUpdates ==
    [tenant : {1}, eid : EventIds, title : {<<>>, <<"t">>}, date : {None},
     time : {None, 34200}, dur : {None}, user : {None, 1}]

SyncDeletes == [tenant : {1}, eid : EventIds, user : {None, 1}]

Init ==
    /\ events = {}
    /\ nextId = 1
    /\ remote = {}
    /\ nextGid = 1
    /\ creds \in [Users -> {NoCred, FreshCred, StaleCred}]
    /\ ostates = {}
    /\ now = Now0
    /\ ops = 0
    /\ procs = [p \in Procs |-> Idle]

GcalStep(p) ==
    \/ LoadCredentials(p)
    \/ RefreshToken(p)
    \/ PersistTokens(p)
    \/ RemoteInsert(p)
    \/ RemoteUpdate(p)
    \/ RemoteDelete(p)

Next ==
    \E p \in {1} :
        \/ \E in \in SyncCreates : CreateStart(p, in)
        \/ CreateDupCheck(p)
        \/ CreateInsert(p)
        \/ CreateMarkSynced(p)
        \/ CreateMarkPending(p)
        \/ \E in \in SyncUpdates : UpdateStart(p, in)
        \/ UpdateGet(p)
        \/ UpdateWrite(p)
        \/ UpdateMarkSynced(p)
        \/ \E in \in SyncDeletes : DeleteStart(p, in)
        \/ DeleteGet(p)
        \/ DeleteRow(p)
        \/ GcalStep(p)
        \/ Return(p)

Spec == Init /\ [][Next]_vars

\* the duplicate gate: creates one after the other, with titles that share a
\* first word up to case and start times closer and farther than the threshold
Titles == {<<"D">>, <<"d", " ", "t">>, <<"d", "\\", "t">>}

DupTimes == {None, 34199, 34200}

DupCreates ==
    [tenant : Tenants, title : Titles, date : {1}, time : DupTimes,
     dur : {DefaultDurationMinutes}, sync : {TRUE}, user : {1}, idem : {None}]

InitDup ==
    /\ events = {}
    /\ nextId = 1
    /\ remote = {}
    /\ nextGid = 1
    /\ creds \in [Users -> {NoCred, FreshCred}]
    /\ ostates = {}
    /\ now = Now0
    /\ ops = 0
    /\ procs = [p \in Procs |-> Idle]

NextDup ==
    \/ \E in \in DupCreates : CreateStart(1, in)
    \/ CreateDupCheck(1)
    \/ CreateInsert(1)
    \/ LoadCredentials(1)
    \/ RemoteInsert(1)
    \/ CreateMarkSynced(1)
    \/ CreateMarkPending(1)
    \/ Return(1)

SpecDup == InitDup /\ [][NextDup]_vars

\* the list merge: synchronised creates, one of them running over midnight,
\* and lists over several date ranges with and without a search text
ListCreates ==
    [tenant : {1}, title : {<<"D">>, <<"t">>}, date : {1}, time : {None},
     dur : {DefaultDurationMinutes, 1440}, sync : {TRUE}, user : {1}, idem : {None}]

Lists ==
    [tenant : {1}, sdate : {None, 2}, edate : {None, 2}, search : {<<>>, <<"t">>},
     include : BOOLEAN, user : {None, 1}]

InitRead ==
    /\ events = {}
    /\ nextId = 1
    /\ remote = {}
    /\ nextGid = 1
    /\ creds \in [Users -> {NoCred, FreshCred, StaleCred}]
    /\ ostates = {}
    /\ now = Now0
    /\ ops = 0
    /\ procs = [p \in Procs |-> Idle]

NextList ==
    \/ \E in \in ListCreates : CreateStart(1, in)
    \/ CreateDupCheck(1)
    \/ CreateInsert(1)
    \/ CreateMarkSynced(1)
    \/ CreateMarkPending(1)
    \/ \E in \in Lists : ListStart(1, in)
    \/ ListQuery(1)
    \/ LoadCredentials(1)
    \/ RefreshToken(1)
    \/ PersistTokens(1)
    \/ RemoteInsert(1)
    \/ RemoteList(1)
    \/ Return(1)

SpecList == InitRead /\ [][NextList]_vars

\* the availability check: creates of one and of four hours at 9:00 and 10:00,
\* and checks of the hour from 10:00 and of the hour from 12:30
AvailCreates ==
    [tenant : {1}, title : {<<"D">>}, date : {1}, time : {None, 36000},
     dur : {DefaultDurationMinutes, 240}, sync : BOOLEAN, user : {1}, idem : {None}]

Avails ==
    [tenant : {1}, date : {1}, time : {36000, 45000},
     dur : {DefaultDurationMinutes}, user : {None, 1}]

NextAvail ==
    \/ \E in \in AvailCreates : CreateStart(1, in)
    \/ CreateDupCheck(1)
    \/ CreateInsert(1)
    \/ CreateMarkSynced(1)
    \/ CreateMarkPending(1)
    \/ \E in \in Avails : AvailStart(1, in)
    \/ AvailQuery(1)
    \/ LoadCredentials(1)
    \/ RefreshToken(1)
    \/ PersistTokens(1)
    \/ RemoteInsert(1)
    \/ RemoteList(1)
    \/ Return(1)

SpecAvail == InitRead /\ [][NextAvail]_vars

\* two tenants: synchronised creates in both, and updates, deletes and reads
\* that name an event id under either tenant
TenantCreates ==
    [tenant : Tenants, title : {<<"D">>}, date : {1}, time : {None},
     dur : {DefaultDurationMinutes}, sync : {TRUE}, user : {1}, idem : {None}]

TenantUpdates ==
    [tenant : Tenants, eid : EventIds, title : {<<"t">>}, date : {None},
     time : {None}, dur : {None}, user : {1}]

TenantDeletes == [tenant : Tenants, eid : EventIds, user : {1}]

TenantGets == [tenant : Tenants, eid : EventIds]

InitTenant ==
    /\ events = {}
    /\ nextId = 1
    /\ remote = {}
    /\ nextGid = 1
    /\ creds = [u \in Users |-> FreshCred]
    /\ ostates = {}
    /\ now = Now0
    /\ ops = 0
    /\ procs = [p \in Procs |-> Idle]

NextTenant ==
    \/ \E in \in TenantCreates : CreateStart(1, in)
    \/ CreateDupCheck(1)
    \/ CreateInsert(1)
    \/ CreateMarkSynced(1)
    \/ CreateMarkPending(1)
    \/ \E in \in TenantUpdates : UpdateStart(1, in)
    \/ UpdateGet(1)
    \/ UpdateWrite(1)
    \/ UpdateMarkSynced(1)
    \/ \E in \in TenantDeletes : DeleteStart(1, in)
    \/ DeleteGet(1)
    \/ DeleteRow(1)
    \/ \E in \in TenantGets : GetStart(1, in)
    \/ GetRow(1)
    \/ LoadCredentials(1)
    \/ RemoteInsert(1)
    \/ RemoteUpdate(1)
    \/ RemoteDelete(1)
    \/ Return(1)

SpecTenant == InitTenant /\ [][NextTenant]_vars

\* lists and availability checks over the same stores
NextRead ==
    \/ NextList
    \/ \E in \in Avails : AvailStart(1, in)
    \/ AvailQuery(1)

SpecRead == InitRead /\ [][NextRead]_vars

\* retried creates: two clients that create at the same time, with and without
\* an idempotency key, in two tenants
IdemCreates ==
    [tenant : Tenants, title : {<<"D">>}, date : {1}, time : {None, 34200},
     dur : {DefaultDurationMinutes}, sync : BOOLEAN, user : {None}, idem : {None, 1}]

InitIdem ==
    /\ events = {}
    /\ nextId = 1
    /\ remote = {}
    /\ nextGid = 1
    /\ creds = [u \in Users |-> NoCred]
    /\ ostates = {}
    /\ now = Now0
    /\ ops = 0
    /\ procs = [p \in Procs |-> Idle]

NextIdem ==
    \E p \in Procs :
        \/ \E in \in IdemCreates : CreateStart(p, in)
        \/ CreateDupCheck(p)
        \/ CreateInsert(p)
        \/ Return(p)

SpecIdem == InitIdem /\ [][NextIdem]_vars

\* two clients that delete the same mirrored event at the same time, the user
\* holding credentials that need no refresh
DeleteCreates ==
    [tenant : {1}, title : {<<"D">>}, date : {1}, time : {None},
     dur : {DefaultDurationMinutes}, sync : {TRUE}, user : {1}, idem : {None}]

Deletes == [tenant : {1}, eid : {1}, user : {1}]

InitDelete ==
    /\ events = {}
    /\ nextId = 1
    /\ remote = {}
    /\ nextGid = 1
    /\ creds = [u \in Users |-> FreshCred]
    /\ ostates = {}
    /\ now = Now0
    /\ ops = 0
    /\ procs = [p \in Procs |-> Idle]

NextDelete ==
    \E p \in Procs :
        \/ \E in \in DeleteCreates : CreateStart(p, in)
        \/ CreateDupCheck(p)
        \/ CreateInsert(p)
        \/ CreateMarkSynced(p)
        \/ CreateMarkPending(p)
        \/ \E in \in Deletes : DeleteStart(p, in)
        \/ DeleteGet(p)
        \/ DeleteRow(p)
        \/ LoadCredentials(p)
        \/ RemoteInsert(p)
        \/ RemoteDelete(p)
        \/ Return(p)

SpecDelete == InitDelete /\ [][NextDelete]_vars

\* reconciliation: client 2 creates events with propagation, and the external
\* job, as client 1, calls update_event with an empty patch on the stored events
\* again and again, for a user whose credentials need no refresh
ReconcileCreates ==
    [tenant : {1}, title : {<<"D">>}, date : {1}, time : {None, 34200},
     dur : {DefaultDurationMinutes}, sync : {TRUE}, user : {1}, idem : {None}]

\* update_event(tenant_id, event_id, EventUpdate(), user_id_for_sync)
ReconcileStart(p, id) ==
    /\ procs[p].pc = "idle"
    /\ RowOf(1, id) # {}
    /\ Set(p, [Idle EXCEPT !.pc = "u_get", !.op = "update", !.tenant = 1,
                           !.eid = id, !.user = 1])
    /\ UNCHANGED <<events, nextId, remote, nextGid, creds, ostates, now, ops>>

\* the steps of a handler that is under way
Continue(p) ==
    \/ CreateDupCheck(p)
    \/ CreateInsert(p)
    \/ CreateMarkSynced(p)
    \/ CreateMarkPending(p)
    \/ UpdateGet(p)
    \/ UpdateWrite(p)
    \/ UpdateMarkSynced(p)
    \/ LoadCredentials(p)
    \/ RemoteInsert(p)
    \/ RemoteUpdate(p)
    \/ Return(p)

NextReconcile ==
    \/ \E in \in ReconcileCreates : CreateStart(2, in)
    \/ \E id \in EventIds : ReconcileStart(1, id)
    \/ \E p \in Procs : Continue(p)

\* every handler runs to its end, the job comes back to every stored event,
\* and the remote calendar answers the update of every event successfully
\* again and again
FairReconcile ==
    /\ \A p \in Procs : WF_vars(Continue(p))
    /\ \A id \in EventIds : SF_vars(ReconcileStart(1, id))
    /\ \A id \in EventIds :
          SF_vars(RemoteUpdate(1) /\ procs[1].eid = id /\ procs'[1].pc = "u_mark")

SpecReconcile == InitDelete /\ [][NextReconcile]_vars /\ FairReconcile

\* events of the shortest, the default and the longest durations, and patches
\* that move them to another date, another time or both
DurationCreates ==
    [tenant : {1}, title : {<<"D">>}, date : {1}, time : {None, 81000},
     dur : {15, DefaultDurationMinutes, 1439, 1440}, sync : {FALSE},
     user : {None}, idem : {None}]

DurationUpdates ==
    [tenant : {1}, eid : EventIds, title : {<<>>, <<"t">>}, date : {None, 3},
     time : {None, 34200}, dur : {None}, user : {None}]

NextDuration ==
    \E p \in {1} :
        \/ \E in \in DurationCreates : CreateStart(p, in)
        \/ CreateDupCheck(p)
        \/ CreateInsert(p)
        \/ \E in \in DurationUpdates : UpdateStart(p, in)
        \/ UpdateGet(p)
        \/ UpdateWrite(p)
        \/ Return(p)

SpecDuration == InitIdem /\ [][NextDuration]_vars

\* connection-status queries of two clients while the clock moves, for a user
\* with no credential, a valid one or an expired one
ExpiredCred == [present |-> TRUE, access |-> 1, refresh |-> 1, expires |-> Now0]

InitStatus ==
    /\ events = {}
    /\ nextId = 1
    /\ remote = {}
    /\ nextGid = 1
    /\ creds \in [Users -> {NoCred, FreshCred, ExpiredCred}]
    /\ ostates = {}
    /\ now = Now0
    /\ ops = 0
    /\ procs = [p \in Procs |-> Idle]

NextStatus ==
    \/ \E p \in Procs :
          \/ \E u \in Users : StatusStart(p, u)
          \/ StatusGet(p)
          \/ LoadCredentials(p)
          \/ RefreshToken(p)
          \/ PersistTokens(p)
          \/ StatusReturn(p)
          \/ Return(p)
    \/ Tick

SpecStatus == InitStatus /\ [][NextStatus]_vars

\* concurrent credential resolution: two availability checks for the same
\* user, whose stored token is due for refresh, while the clock moves
RefreshAvails ==
    [tenant : {1}, date : {1}, time : {36000}, dur : {DefaultDurationMinutes},
     user : {1}]

InitRefresh ==
    /\ events = {}
    /\ nextId = 1
    /\ remote = {}
    /\ nextGid = 1
    /\ creds = [u \in Users |-> StaleCred]
    /\ ostates = {}
    /\ now = Now0
    /\ ops = 0
    /\ procs = [p \in Procs |-> Idle]

NextRefresh ==
    \/ Tick
    \/ \E p \in Procs :
          \/ \E in \in RefreshAvails : AvailStart(p, in)
          \/ AvailQuery(p)
          \/ LoadCredentials(p)
          \/ RefreshToken(p)
          \/ PersistTokens(p)
          \/ RemoteList(p)

SpecRefresh == InitRefresh /\ [][NextRefresh]_vars

\* the OAuth flow: initiations and callbacks, the callbacks of the processes in P
StateTokens == {1, 2}

InitOAuth ==
    /\ events = {}
    /\ nextId = 1
    /\ remote = {}
    /\ nextGid = 1
    /\ creds = [u \in Users |-> NoCred]
    /\ ostates = {}
    /\ now = Now0
    /\ ops = 0
    /\ procs = [p \in Procs |-> Idle]

CallbackStep(p) ==
    \/ \E s \in StateTokens : CallbackStart(p, s)
    \/ CallbackGetState(p)
    \/ CallbackExchange(p)
    \/ CallbackUserInfo(p)
    \/ CallbackGetUser(p)
    \/ CallbackUpsert(p)
    \/ CallbackMarkUsed(p)
    \/ Return(p)

InitiateStep == \E ph \in Phones, rd \in {None, 1} : Initiate(ph, rd)

\* callbacks one after the other
NextOAuthSeq == InitiateStep \/ Tick \/ CallbackStep(1)

SpecOAuthSeq == InitOAuth /\ [][NextOAuthSeq]_vars

\* callbacks that overlap
NextOAuth == InitiateStep \/ Tick \/ \E p \in Procs : CallbackStep(p)

SpecOAuth == InitOAuth /\ [][NextOAuth]_vars


\* ============================================================= properties

\* the handler of p is inside a call of services/google_calendar.py
RemotePcs == {"g_load", "g_refresh", "g_persist", "g_call"}

\* the patch of an UpdateEvent is what the row holds
PatchStored(r, e) ==
    /\ (r.title # <<>> => e.title = r.title)
    /\ (r.start # None => e.start = r.start /\ e.end = r.end)

\* C1: a CreateEvent with propagation requested and a sync user, whose remote
\* side failed (no stored credentials, refresh refused, provider error on
\* insert, transport failure during refresh), has returned created = true
\* without raising, and its row is stored pending_sync with no remote id.
C1_CreateSurvivesRemoteFailure ==
    \A p \in Procs :
        LET r == procs[p]
        IN (/\ r.pc = "done" /\ r.op = "create" /\ r.sync /\ r.user # None
            /\ r.fail \in {"no_credentials", "refresh_failed", "create_failed",
                           "refresh_transport"})
           => /\ r.outcome = "ok"
              /\ r.created
              /\ \E e \in RowOf(r.tenant, r.rid) :
                    e.sync = "pending_sync" /\ e.gid = None

\* the events of the tenant that the duplicate rule names for the create of r:
\* start less than 30 minutes away, title containing the first word of the
\* proposed title, case-insensitively
NamedDuplicates(r) ==
    {e \in events : /\ e.tenant = r.tenant
                    /\ Abs(e.start - r.start) < Threshold
                    /\ Keyword(r.title) # <<>>
                    /\ Contains(LowerStr(e.title), Keyword(r.title))}

\* C2: a CreateEvent, run without concurrent creates, whose tenant holds an
\* event starting less than 30 minutes from the proposed start with a title
\* that contains the first word of the proposed title does not get past the
\* gate; a create stopped by the gate has inserted no row, made no remote
\* call and returned created = false with one of those events as duplicate.
C2_DuplicateBlocksCreate ==
    \A p \in Procs :
        LET r == procs[p]
        IN r.op = "create"
           => /\ r.pc = "c_insert" => NamedDuplicates(r) = {}
              /\ (r.pc = "done" /\ r.dup # None)
                 => /\ ~r.created /\ ~r.wrote /\ r.order = "none"
                    /\ r.dup \in {e.id : e \in NamedDuplicates(r)}

\* the entries of a response that stand for the remote event gid
EntriesFor(seq, gid) == {i \in DOMAIN seq : seq[i].gid = gid}

\* C5: a ListEvents with remote events included, over any date range and with
\* any search text, that returned after the remote calendar listed an event X
\* which a local event of the tenant has as remote id, holds exactly one entry
\* for X in its result, and that entry is the local copy.
C5_MergeKeepsLocalCopy ==
    \A p \in Procs :
        LET r == procs[p]
        IN (r.op = "list" /\ r.pc = "done" /\ r.outcome = "ok")
           => \A i \in DOMAIN r.items :
                \A e \in events :
                    (e.tenant = r.tenant /\ e.gid = r.items[i].id)
                    => /\ Cardinality(EntriesFor(r.result, e.gid)) = 1
                       /\ \A k \in EntriesFor(r.result, e.gid) :
                             r.result[k].source = "app" /\ r.result[k].id = e.id

\* C6: a CheckAvailability that returned holds among its conflicts every local
\* event of the tenant with event.start < end and event.end > start, whatever
\* the length of the event and however early it starts, and answers
\* available = true only when there is no such event.
C6_EveryOverlapReported ==
    \A p \in Procs :
        LET r == procs[p]
        IN (r.op = "avail" /\ r.pc = "done" /\ r.outcome = "ok")
           => \A e \in events :
                (e.tenant = r.tenant /\ Overlaps(e, r.start, r.end))
                => /\ ~r.available
                   /\ \E i \in DOMAIN r.conflicts :
                         r.conflicts[i].id = e.id /\ r.conflicts[i].source = "app"

\* C7: once a CheckAvailability is over, every event it loaded, local or
\* remote, is among its conflicts if and only if event.start < end and
\* event.end > start, a missing end standing for start + 1 hour: an event that
\* ends at the start of the slot or starts at its end is no conflict, an
\* event that overlaps by a second is one.
C7_ConflictIffOverlap ==
    \A p \in Procs :
        LET r == procs[p]
        IN (r.op = "avail" /\ r.pc = "done")
           => /\ \A i \in DOMAIN r.records :
                    (\E k \in DOMAIN r.conflicts :
                        /\ r.conflicts[k].source = "app"
                        /\ r.conflicts[k].id = r.records[i].id)
                    <=> Overlaps(r.records[i], r.start, r.end)
              /\ \A i \in DOMAIN r.items :
                    (\E k \in DOMAIN r.conflicts :
                        /\ r.conflicts[k].source = "google"
                        /\ r.conflicts[k].gid = r.items[i].id)
                    <=> Overlaps(r.items[i], r.start, r.end)

\* C8 as stated: in every CreateEvent, UpdateEvent and DeleteEvent the local
\* write comes before the first remote calendar call.
C8_LocalWriteAlwaysFirst ==
    \A p \in Procs : procs[p].order # "remote_first"

\* C8 as amended: CreateEvent and UpdateEvent write the row before their first
\* remote call and the written row stands whatever the remote call does;
\* DeleteEvent makes its remote call first, while the row is still stored.
C8_WriteOrder ==
    \A p \in Procs :
        LET r == procs[p]
        IN /\ (r.op \in {"create", "update"} /\ r.order # "none")
                => /\ r.order = "local_first"
                   /\ r.wrote
                   /\ \E e \in RowOf(r.tenant, r.rid) :
                         r.op = "update" => PatchStored(r, e)
           /\ (r.op = "delete" /\ r.pc \in RemotePcs)
                => /\ r.order = "remote_first"
                   /\ ~r.wrote
                   /\ RowOf(r.tenant, r.eid) # {}

\* C8 witness: a DeleteEvent inside its remote call, on a row that a CreateEvent
\* wrote before its own remote call gave it the remote id
C8_Witness ==
    \E p \in Procs :
        /\ procs[p].op = "delete" /\ procs[p].pc = "g_call"
        /\ procs[p].order = "remote_first"
        /\ \E e \in RowOf(procs[p].tenant, procs[p].eid) :
              e.gid = procs[p].egid /\ e.sync = "synced"

\* C9: an UpdateEvent on an event with a remote id stores pending_sync with the
\* patch before any remote call; the row is synced (last_synced_at set) only
\* after a successful remote update; when the remote update failed or no sync
\* user was supplied the patch stays stored, the row stays pending_sync and
\* the call did not raise.
C9_UpdatePendingThenSynced ==
    \A p \in Procs :
        LET r == procs[p]
        IN (r.op = "update" /\ r.egid # None /\ r.wrote)
           => /\ r.pc \in RemotePcs
                 => \E e \in RowOf(r.tenant, r.eid) :
                       e.sync = "pending_sync" /\ PatchStored(r, e)
              /\ (r.pc = "done" /\ (r.fail # "none" \/ r.user = None))
                 => /\ r.outcome = "ok"
                    /\ \E e \in RowOf(r.tenant, r.eid) :
                          e.sync = "pending_sync" /\ PatchStored(r, e)
              /\ (r.pc = "done" /\ r.fail = "none" /\ r.user # None)
                 => \E e \in RowOf(r.tenant, r.eid) :
                       e.sync = "synced" /\ e.synced_at = now /\ PatchStored(r, e)

\* C10: a DeleteEvent on an existing event with a remote id attempts the remote
\* delete before it removes the row, and once it is over the row is gone
\* whatever the remote outcome.
C10_DeleteRemoteThenLocal ==
    \A p \in Procs :
        LET r == procs[p]
        IN (r.op = "delete" /\ r.egid # None)
           => /\ r.pc = "d_delete" => r.order = "remote_first"
              /\ r.pc = "done" => RowOf(r.tenant, r.eid) = {}


\* the OAuth state with this token has been marked used
StateUsed(state) == \E o \in ostates : o.state = state /\ o.used_at # None

\* C3: of the HandleCallback calls that carry the same state and overlap, at
\* most one returns success, at most one writes credentials, and the state is
\* marked used at most once.
C3_StateConsumedOnce ==
    \A p, q \in Procs :
        (/\ p # q
         /\ procs[p].op = "callback" /\ procs[q].op = "callback"
         /\ procs[p].state = procs[q].state)
        => /\ ~(procs[p].ret /\ procs[q].ret)
           /\ ~(procs[p].wroteCred /\ procs[q].wroteCred)
           /\ ~(procs[p].marked /\ procs[q].marked)

\* C4: with callbacks one after the other, a HandleCallback that found its state
\* unexpired and unused, whose code exchange succeeded and whose initiating
\* user exists, has returned success and left the state marked used; a
\* HandleCallback on a state already used has returned failure and left the
\* stored credentials as they were.
C4_FirstCallbackConsumes ==
    \A p \in Procs :
        LET r == procs[p]
        IN (r.op = "callback" /\ r.pc = "done")
           => /\ (r.found /\ r.exch = "ok" /\ get_user_by_phone(r.phone) # {})
                 => r.outcome = "ok" /\ r.ret /\ StateUsed(r.state)
              /\ (StateUsed(r.state) /\ ~r.marked)
                 => r.outcome = "ok" /\ ~r.ret /\ creds[1] = r.snap

\* the edges of the sync_status state machine
SyncEdges ==
    {<<"local", "pending_sync">>, <<"pending_sync", "synced">>,
     <<"pending_sync", "sync_failed">>, <<"sync_failed", "pending_sync">>,
     <<"synced", "pending_sync">>}

\* C11: across CreateEvent, UpdateEvent and DeleteEvent calls, creates that
\* reuse an idempotency key included, every step that changes the sync_status
\* of a stored event changes it along an edge of the state machine; no event
\* goes from local to synced in one step.
C11_SyncStatusEdges ==
    [][\A e \in events : \A f \in events' :
          (f.tenant = e.tenant /\ f.id = e.id /\ f.sync # e.sync)
          => <<e.sync, f.sync>> \in SyncEdges]_vars

\* C12: a ResolveValidCredentials that returned credentials for a user with a
\* stored credential made exactly one refresh call when the stored expiry was
\* no later than now + 5 minutes, and then the access token and the expiry of
\* the refresh response are in the store and the returned credentials carry
\* that access token; when the stored expiry was later than now + 5 minutes
\* it made no refresh call and no credential write.  No call refreshes twice.
C12_RefreshOnceAndPersist ==
    \A p \in Procs :
        LET r == procs[p]
        IN /\ r.refreshes <= 1
           /\ (r.pc \in RemotePcs \ {"g_load"} /\ r.loaded.expires > now + RefreshBuffer)
                => r.refreshes = 0 /\ r.tokWrites = 0
           /\ r.pc = "g_call"
                => IF r.loaded.expires <= now + RefreshBuffer
                   THEN /\ r.refreshes = 1 /\ r.tokWrites = 1
                        /\ creds[r.user].access = r.tok.access
                        /\ creds[r.user].expires = r.tok.expires
                        /\ r.tok.expires = now + ExpiresIn
                        /\ r.cred.access = r.tok.access
                        /\ r.cred.expires = r.tok.expires
                   ELSE /\ r.refreshes = 0 /\ r.tokWrites = 0
                        /\ creds[r.user] = r.loaded
                        /\ r.cred = r.loaded

\* C12 witness: credentials returned after a refresh of a token that expired
\* exactly at now + 5 minutes, carrying the new access token
C12_Witness ==
    \E p \in Procs :
        /\ procs[p].pc = "g_call" /\ procs[p].refreshes = 1
        /\ procs[p].loaded.expires = now + RefreshBuffer
        /\ procs[p].cred.access # procs[p].loaded.access
        /\ creds[procs[p].user].access = procs[p].cred.access

\* the refresh attempt of the handler failed: a non-2xx answer, a transport
\* failure, a malformed token response
RefreshFailures == {"refresh_failed", "refresh_transport", "refresh_malformed"}

\* C13: a handler whose ResolveValidCredentials met a failed refresh attempt
\* (non-2xx answer, transport failure, malformed token response) does not
\* raise: it ends as it does for a user who is not connected.
C13_RefreshFailureReturnsNil ==
    \A p \in Procs :
        LET r == procs[p]
        IN r.fail \in RefreshFailures
           => /\ r.outcome # "raised"
              /\ r.pc = "done" => r.outcome = "ok"

\* C14: once a ResolveValidCredentials has met a refresh that the provider
\* refused, the credential store holds no row for that user.
C14_FailedRefreshDropsCredential ==
    \A p \in Procs :
        LET r == procs[p]
        IN (r.fail = "refresh_failed" /\ r.user # None) => ~creds[r.user].present

\* handler p has written the token set of its refresh response
Persisted(p) == procs[p].tokWrites = 1

\* C15 as stated: after two concurrent ResolveValidCredentials for one user
\* have both refreshed and written, the row holds values of one refresh
\* response only: it does not carry the access token of one response next to
\* the refresh token of the other.
C15_NoMixedRow ==
    \A p, q \in Procs :
        (/\ p # q /\ Persisted(p) /\ Persisted(q)
         /\ procs[p].user = procs[q].user
         /\ creds[procs[p].user].access = procs[p].tok.access)
        => ~(/\ procs[q].tok.refresh # None
             /\ creds[procs[p].user].refresh = procs[q].tok.refresh)

\* C15 as amended: the credential row of a user changes only when a
\* ResolveValidCredentials writes its refresh response, and the write puts the
\* access token and the expiry of that one response into the row together
\* (the last write wins); the refresh token is that of the response when it
\* carries one and stays as stored when it carries none; the user keeps
\* exactly one row.
C15_LastWriteWins ==
    [][\A u \in Users :
          creds'[u] # creds[u]
          => \E p \in Procs :
                /\ procs[p].pc = "g_persist" /\ procs'[p].pc = "g_call"
                /\ procs[p].user = u
                /\ creds'[u].present
                /\ creds'[u].access = procs[p].tok.access
                /\ creds'[u].expires = procs[p].tok.expires
                /\ creds'[u].refresh = IF procs[p].tok.refresh # None
                                       THEN procs[p].tok.refresh
                                       ELSE creds[u].refresh]_vars

\* C15 witness: both calls refreshed and wrote, their responses differ in
\* access token and in expiry, and the row carries one of them whole
C15_Witness ==
    /\ \A p \in Procs : Persisted(p) /\ procs[p].user = 1
    /\ procs[1].tok.access # procs[2].tok.access
    /\ procs[1].tok.expires # procs[2].tok.expires
    /\ \E p \in Procs : /\ creds[1].access = procs[p].tok.access
                         /\ creds[1].expires = procs[p].tok.expires

\* C16: after any sequence or interleaving of CreateEvent calls the store
\* holds at most one row per tenant and non-null idempotency key, and the
\* insert of a create whose key is already present in the tenant adds no row
\* and leaves every stored row as it is.
C16_OneRowPerKey ==
    [][/\ \A e, f \in events' :
             (e.tenant = f.tenant /\ e.idem # None /\ e.idem = f.idem) => e = f
       /\ \A p \in Procs :
             (/\ procs[p].pc = "c_insert" /\ procs'[p].pc # "c_insert"
              /\ IdemConflict(procs[p].tenant, procs[p].idem) # {})
             => events' = events]_vars

\* C16 witness: a create that reused a key is over, it inserted nothing and
\* the row it was answered with is the only one of its tenant with that key,
\* while the other tenant holds a row with the same key
C16_Witness ==
    \E p \in Procs :
        /\ procs[p].op = "create" /\ procs[p].pc = "done"
        /\ procs[p].wrote /\ ~procs[p].inserted
        /\ Cardinality({e \in events : e.tenant = procs[p].tenant
                                        /\ e.idem = procs[p].idem}) = 1
        /\ \E e \in events : e.tenant # procs[p].tenant /\ e.idem = procs[p].idem

\* the remote fetch of the handler failed: no credentials, a failed refresh,
\* a provider error on the listing
FetchFailures == {"no_credentials", "list_failed"} \cup RefreshFailures

\* C17: a ListEvents or CheckAvailability whose remote fetch failed (no
\* credentials, refresh failure, provider list error) does not raise and
\* answers with what the local events alone give: ListEvents the local events
\* of the range by ascending start, CheckAvailability the conflicts among the
\* local events only.
C17_FetchFailureLocalOnly ==
    \A p \in Procs :
        LET r == procs[p]
        IN (r.op \in {"list", "avail"} /\ r.fail \in FetchFailures)
           => /\ r.pc = "done" /\ r.outcome = "ok"
              /\ r.op = "list"
                 => /\ {r.result[i].id : i \in DOMAIN r.result}
                          = {e.id : e \in get_events(r.tenant, r.sdate, r.edate, r.search)}
                    /\ Len(r.result) = Cardinality(get_events(r.tenant, r.sdate,
                                                              r.edate, r.search))
                    /\ \A i \in DOMAIN r.result : r.result[i].source = "app"
                    /\ \A i, j \in DOMAIN r.result :
                          i < j => r.result[i].start <= r.result[j].start
              /\ r.op = "avail"
                 => /\ \A i \in DOMAIN r.conflicts : r.conflicts[i].source = "app"
                    /\ {r.conflicts[i].id : i \in DOMAIN r.conflicts}
                          = {e.id : e \in {x \in get_events_in_range(r.tenant,
                                                  r.start - WindowHours * HourSeconds,
                                                  r.end + WindowHours * HourSeconds) :
                                              Overlaps(x, r.start, r.end)}}
                    /\ r.available = (r.conflicts = <<>>)

\* C18: the step by which an UpdateEvent, DeleteEvent or GetEvent for (tenant
\* T, event id E) looks the event up, when no row with tenant T and id E is
\* stored (be E an event of another tenant), ends the call with NotFound,
\* changes and removes no event row of any tenant and calls no remote
\* calendar.
C18_NotFoundTouchesNothing ==
    [][\A p \in Procs :
          (/\ procs[p].pc \in {"u_get", "d_get", "x_get"}
           /\ procs'[p] # procs[p]
           /\ {e \in events : e.tenant = procs[p].tenant /\ e.id = procs[p].eid} = {})
          => /\ procs'[p].pc = "done"
             /\ procs'[p].outcome = "notfound"
             /\ procs'[p].order = "none"
             /\ events' = events
             /\ remote' = remote]_vars

\* C18 witness: a DeleteEvent ended NotFound on the id of an event that another
\* tenant holds, synchronised, and still holds
C18_Witness ==
    \E p \in Procs :
        /\ procs[p].op = "delete" /\ procs[p].pc = "done"
        /\ procs[p].outcome = "notfound"
        /\ \E e \in events : /\ e.id = procs[p].eid
                              /\ e.tenant # procs[p].tenant
                              /\ e.gid # None
                              /\ RemoteOf(e.gid) # {}

\* C19: a HandleCallback that returned success = false (state not found, used
\* or expired; code exchange refused; initiating user not found) has written
\* no credential and not marked the state used: the credential store is as
\* it found it, and a state it found valid is still unused; when the state
\* lookup failed it attempted no code exchange.
C19_FailedCallbackWritesNothing ==
    \A p \in Procs :
        LET r == procs[p]
        IN (r.op = "callback" /\ r.pc = "done" /\ r.outcome = "ok" /\ ~r.ret)
           => /\ r.fail \in {"invalid_state", "token_exchange_failed", "user_not_found"}
              /\ creds[1] = r.snap
              /\ ~r.wroteCred /\ ~r.marked
              /\ r.fail = "invalid_state" => r.exch = "none" /\ ~r.found
              /\ r.fail # "invalid_state"
                 => \E o \in ostates : o.state = r.state /\ o.used_at = None

\* C19 witness: a callback on a state that an earlier callback consumed has
\* returned failure without a code exchange, the credentials of the earlier
\* callback in the store
C19_Witness ==
    \E p \in Procs :
        /\ procs[p].op = "callback" /\ procs[p].pc = "done" /\ ~procs[p].ret
        /\ procs[p].fail = "invalid_state" /\ procs[p].exch = "none"
        /\ StateUsed(procs[p].state)
        /\ creds[1].present

\* C20: a create that passed the duplicate gate and asks for no propagation
\* inserts exactly one row and returns it with sync_status = local,
\* source = app, no remote id, start = date + time (09:00 when no time is
\* given) and end = start + duration; it makes no remote call.
C20_PlainCreate ==
    [][\A p \in Procs :
          LET r == procs[p]
              s == Combine(r.date, IF r.time # None THEN r.time
                                   ELSE DefaultStartHour * HourSeconds)
          IN (r.pc = "c_insert" /\ ~r.sync /\ procs'[p] # r)
             => /\ events \subseteq events'
                /\ Cardinality(events' \ events) = 1
                /\ procs'[p].pc = "done" /\ procs'[p].outcome = "ok"
                /\ procs'[p].created
                /\ \E e \in events' :
                      /\ e.tenant = r.tenant /\ e.id = procs'[p].rid
                      /\ e.sync = "local" /\ e.source = "app" /\ e.gid = None
                      /\ e.start = s /\ e.end = s + r.dur * 60
                /\ remote' = remote
                /\ procs'[p].order = "none"]_vars

\* C21: the remote delete is idempotent. Whatever the provider holds, a
\* delete it answers with 204 or 404 returns success (no GoogleCalendarError,
\* the handler goes on to the row) and leaves the remote event absent; a
\* delete of an event the provider no longer holds is answered 404 or with
\* an error; any other error status is GoogleCalendarError(delete_failed).
C21_RemoteDeleteIdempotent ==
    [][\A p \in Procs :
          LET r == procs[p]
              q == procs'[p]
          IN (r.pc = "g_call" /\ r.op = "delete" /\ q # r /\ q.fail # "transport")
             => /\ q.http \in {204, 404, 500}
                /\ q.http \in {204, 404}
                   => /\ q.pc = "d_delete" /\ q.outcome # "raised"
                      /\ q.fail # "delete_failed"
                      /\ {g \in remote' : g.id = r.egid} = {}
                /\ {g \in remote : g.id = r.egid} = {} => q.http \in {404, 500}
                /\ q.http = 500 => q.fail = "delete_failed" /\ remote' = remote]_vars

\* C21 witness: two deletes of one remote event, the first answered 204 and
\* the second 404, both past the remote call without an error
C21_Witness ==
    \E p, q \in Procs :
        /\ p # q
        /\ procs[p].op = "delete" /\ procs[q].op = "delete"
        /\ procs[p].egid # None /\ procs[p].egid = procs[q].egid
        /\ procs[p].http = 204 /\ procs[q].http = 404
        /\ procs[p].outcome = "ok" /\ procs[q].outcome = "ok"
        /\ procs[q].fail = "http_404"

\* C22: the write that follows a refresh response without a refresh token
\* leaves the stored refresh token as it is and changes only the access token
\* and the expiry, and the returned credentials carry the refresh token the
\* call had read; a response with a refresh token replaces the stored one,
\* and the returned credentials carry it.
C22_RefreshTokenRetained ==
    [][\A p \in Procs :
          LET r == procs[p]
              q == procs'[p]
              c == creds[r.user]
              d == creds'[r.user]
          IN (r.pc = "g_persist" /\ q # r)
             => /\ d.present /\ d.access = r.tok.access /\ d.expires = r.tok.expires
                /\ q.cred.access = r.tok.access
                /\ \A u \in Users \ {r.user} : creds'[u] = creds[u]
                /\ IF r.tok.refresh = None
                   THEN d.refresh = c.refresh /\ q.cred.refresh = r.loaded.refresh
                   ELSE d.refresh = r.tok.refresh /\ q.cred.refresh = r.tok.refresh]_vars

\* C22 witness: credentials returned after a refresh whose response had no
\* refresh token: new access token in the store, the refresh token kept
C22_Witness ==
    \E p \in Procs :
        /\ procs[p].pc = "g_call" /\ procs[p].tokWrites = 1
        /\ procs[p].tok.refresh = None
        /\ procs[p].cred.refresh = procs[p].loaded.refresh
        /\ procs[p].cred.refresh # None
        /\ creds[procs[p].user].refresh = procs[p].loaded.refresh
        /\ creds[procs[p].user].access = procs[p].tok.access
        /\ creds[procs[p].user].access # procs[p].loaded.access

\* C23: every stored event with sync_status = pending_sync, with or without
\* a remote id, eventually has sync_status = synced, when it is not deleted,
\* the job keeps calling update_event for it with valid credentials and the
\* remote calendar eventually answers successfully.
C23_PendingEventuallySynced ==
    \A id \in EventIds :
        (\E e \in events : e.id = id /\ e.sync = "pending_sync")
            ~> (\E e \in events : e.id = id /\ e.sync = "synced")

\* C24: an update whose patch sets the date and/or the time and no duration
\* keeps the duration of the event (end - start, 15 to 1440 minutes); an
\* update whose patch sets neither date nor time leaves start and end alone.
C24_DurationPreserved ==
    [][\A p \in Procs :
          LET r == procs[p]
          IN (r.pc = "u_write" /\ r.dur = None /\ procs'[p] # r)
             => \A e \in events : \A f \in events' :
                   (e.tenant = r.tenant /\ e.id = r.eid /\ f.tenant = e.tenant
                    /\ f.id = e.id)
                   => IF r.date # None \/ r.time # None
                      THEN f.end - f.start = e.end - e.start
                      ELSE f.start = e.start /\ f.end = e.end]_vars

\* C25: the connection status is connected = true only when the stored
\* credential was unexpired or its refresh succeeded: a status query whose
\* refresh failed answers connected = false.
C25_FailedRefreshNotConnected ==
    \A p \in Procs :
        LET r == procs[p]
        IN (r.op = "status" /\ r.pc = "done")
           => /\ r.connected => r.snap.present
              /\ r.fail \in RefreshFailures => ~r.connected

\* C26: the conflicts of a CheckAvailability hold at most one entry per
\* remote event id: a conflicting local event mirrored to remote id X and the
\* remote event X of the provider are one conflict, the local copy.
C26_OneConflictPerRemoteId ==
    \A p \in Procs :
        LET r == procs[p]
        IN (r.op = "avail" /\ r.pc = "done" /\ r.outcome = "ok")
           => \A i, j \in DOMAIN r.conflicts :
                 (i # j /\ r.conflicts[i].gid # None)
                 => r.conflicts[i].gid # r.conflicts[j].gid

\* C27: a CheckAvailability that returned answers available = true exactly
\* when it has no conflicts; with no conflicts it suggests nothing; otherwise
\* its suggestions are, in ascending order, the first hours (three at most)
\* among 08:00 .. 19:00 of the date for which [h:00, h:00 + duration) overlaps
\* none of the returned conflicts under the half-open test.
C27_SuggestionsAreFirstFreeHours ==
    \A p \in Procs :
        LET r == procs[p]
            c == r.conflicts
            s == r.suggested
            Free(h) ==
                \A i \in DOMAIN c :
                    LET c_end == IF c[i].end # None THEN c[i].end
                                 ELSE c[i].start + HourSeconds
                        test_start == r.date * DaySeconds + h * HourSeconds
                    IN ~(c[i].start < test_start + r.dur * 60 /\ c_end > test_start)
        IN (r.op = "avail" /\ r.pc = "done" /\ r.outcome = "ok")
           => /\ r.available <=> c = <<>>
              /\ c = <<>> => s = <<>>
              /\ Len(s) <= MaxSuggestions
              /\ \A i \in DOMAIN s : s[i] \in FirstHour .. LastHour /\ Free(s[i])
              /\ \A i, j \in DOMAIN s : i < j => s[i] < s[j]
              /\ c # <<>>
                 => \A h \in FirstHour .. LastHour :
                       (Free(h) /\ \A i \in DOMAIN s : s[i] # h)
                       => Len(s) = MaxSuggestions /\ h > s[MaxSuggestions]

\* C27 witness: a CheckAvailability with a conflict suggested three hours,
\* leaving out a busy hour between them and free hours after them
C27_Witness ==
    \E p \in Procs :
        LET r == procs[p]
        IN /\ r.op = "avail" /\ r.pc = "done" /\ r.outcome = "ok"
           /\ ~r.available /\ r.conflicts # <<>>
           /\ Len(r.suggested) = MaxSuggestions
           /\ \E h \in FirstHour .. LastHour :
                 /\ r.suggested[1] < h /\ h < r.suggested[MaxSuggestions]
                 /\ \A i \in DOMAIN r.suggested : r.suggested[i] # h

\* C28: the duplicate gate is not atomic with the insert. A create without
\* idempotency key that passed the duplicate check inserts its row even when
\* a concurrent create has meanwhile stored an event of the same tenant with
\* the same title and start: both rows persist.
C28_RaceInsertsBoth ==
    [][\A p \in Procs :
          LET r == procs[p]
          IN (/\ r.pc = "c_insert" /\ r.idem = None /\ procs'[p] # r
              /\ \E e \in events :
                    e.tenant = r.tenant /\ e.title = r.title /\ e.start = r.start)
             => /\ procs'[p].created
                /\ events \subseteq events'
                /\ \E f \in events' \ events :
                      /\ f.tenant = r.tenant /\ f.title = r.title
                      /\ f.start = r.start /\ f.id = procs'[p].rid]_vars

\* C28 witness: two rows of one tenant with the same title and start, none
\* with an idempotency key, the two creates over
C28_Witness ==
    /\ \E e, f \in events :
          /\ e.id # f.id /\ e.tenant = f.tenant /\ e.title = f.title
          /\ e.start = f.start /\ e.idem = None /\ f.idem = None
    /\ \A p \in Procs : procs[p].op = "create" /\ procs[p].pc = "done"
                          /\ procs[p].created

\* C29: a create with propagation that reused an idempotency key stored in
\* the tenant (its insert returned the stored row) creates no remote event
\* and changes neither the remote id nor the sync_status of the stored
\* event.
C29_ReplayCreatesNoRemoteEvent ==
    [][\A p \in Procs :
          LET r == procs[p]
          IN (/\ r.op = "create" /\ r.sync /\ r.wrote /\ ~r.inserted
              /\ r.pc # "done" /\ procs'[p] # r)
             => /\ remote' = remote
                /\ \A e \in events : \A f \in events' :
                      (f.tenant = e.tenant /\ f.id = e.id)
                      => f.gid = e.gid /\ f.sync = e.sync]_vars

\* C30: in every state of the event store reached by creates, updates and
\* deletes with any remote outcome: a row with sync_status = synced has a
\* remote id and a last_synced_at, a row with sync_status = local has no
\* remote id, every row has source = app, and no two rows of one tenant
\* share a remote id.
C30_StoreInvariant ==
    /\ \A e \in events :
          /\ e.sync \in {"local", "pending_sync", "synced", "sync_failed"}
          /\ e.sync = "synced" => e.gid # None /\ e.synced_at # None
          /\ e.sync = "local" => e.gid = None
          /\ e.source = "app"
    /\ \A e, f \in events :
          (e.tenant = f.tenant /\ e.gid # None /\ e.gid = f.gid) => e = f

\* C30 witness: a synced row with its remote id next to a local row, after a
\* remote call that failed
C30_Witness ==
    /\ \E e, f \in events :
          /\ e.sync = "synced" /\ e.gid # None /\ e.synced_at # None
          /\ f.sync = "local" /\ f.gid = None
    /\ \E p \in Procs : procs[p].pc = "done" /\ procs[p].fail # "none"

====
